---- MODULE Spec2Model ----
(***************************************************************************)
(* A model of the retrieval pipeline of the backend: the vector-store      *)
(* adapter (create_index_if_not_exists_async), the remote embedding        *)
(* client, the LLM key-failover utilities, the scraper's                   *)
(* fetch_and_combine, the /analyze and /ask endpoints, the /excel and      *)
(* /visuals routes built on /ask, and the /register, /verify-otp and       *)
(* /login endpoints over the users collection (src/rag.py, src/scraper.py, *)
(* src/config.py, src/excel_generator.py, src/visuals.py, src/auth.py,     *)
(* src/main.py).                                                           *)
(*                                                                         *)
(* The external services (vector store, embedding API, LLM, web pages) are *)
(* the environment: each call to one of them is one step whose outcome is  *)
(* chosen nondeterministically among the outcomes the client code          *)
(* distinguishes.                                                          *)
(***************************************************************************)
EXTENDS Integers, Sequences, FiniteSets, TLC

VARIABLES
    store,          \* the vector store: live index name -> records upserted
    req,            \* per request (task): its frame of locals and its position
    API_KEY,        \* config.API_KEY, 0 when not configured
    GROQ_API_KEYS,  \* config.GROQ_API_KEYS, a non-empty sequence of keys
    batch_size,     \* embeddings.batch_size (EMBEDDING_API_BATCH_SIZE)
    analyses,       \* number of /analyze requests that have arrived
    delete_failed,  \* history: some delete_index call has raised
    returned,       \* history: index name an /analyze returned with
                    \* success -> the chunks that request upserted
    users           \* the users collection: normalized email -> document

vars == <<store, req, API_KEY, GROQ_API_KEYS, batch_size, analyses, delete_failed,
          returned, users>>

----------------------------------------------------------------------------
(* Bounds of the model *)

\* index names available to the store ("webindex-<8 hex digits>")
MaxNames == 6
\* number of concurrently running /analyze requests in SpecConc
NumTasks == 2
\* /analyze requests served in Spec (its /ask requests are not bounded)
MaxAnalyze == 1
\* longest URL list of a request
MaxUrls == 2
\* largest configured embedding batch size
MaxBatch == 2
\* largest number of texts embedded in SpecEmbed
MaxTexts == 4
\* number of distinct strings used as e-mail addresses, user names and
\* login identifiers, each in a plain and in a padded upper-case spelling
MaxStr == 2
\* number of distinct one-time passwords ("100000".."999999")
MaxOtp == 2
\* number of distinct passwords
MaxPw == 2
\* OTPs issued for one e-mail address in SpecAuth
MaxIssued == 3
\* largest pool of configured LLM keys
MaxKeys == 2
\* values the random part of a record id is drawn from
MaxUuids == 1

(* Program constants *)

\* rag.py:87  if len(names) >= 5
IndexLimit == 5
\* rag.py:284  top_k passed by ask
TopK == 5

Names == 1..MaxNames
None == 0

Range(s) == {s[i] : i \in 1..Len(s)}

Min(S) == CHOOSE x \in S : \A y \in S : x <= y

RECURSIVE SortedSeq(_)
SortedSeq(S) == IF S = {} THEN <<>> ELSE <<Min(S)>> \o SortedSeq(S \ {Min(S)})

----------------------------------------------------------------------------
(* Text.  A string is a sequence of tokens [t |-> kind, u |-> tag]; the     *)
(* kinds "nl" (a line break), "sep" (the blank line "\n\n") and "space" are *)
(* whitespace.                                                              *)

Tok(t, u) == [t |-> t, u |-> u]
NL == Tok("nl", 0)
SEP == Tok("sep", 0)

IsSpace(tok) == tok.t \in {"nl", "sep", "space"}

\* str.lstrip
RECURSIVE LStrip(_)
LStrip(s) ==
    IF s = <<>> THEN <<>>
    ELSE IF IsSpace(Head(s)) THEN LStrip(Tail(s)) ELSE s

\* str.rstrip
RECURSIVE RStrip(_)
RStrip(s) ==
    IF s = <<>> THEN <<>>
    ELSE IF IsSpace(s[Len(s)]) THEN RStrip(SubSeq(s, 1, Len(s) - 1)) ELSE s

\* str.strip
Strip(s) == RStrip(LStrip(s))

\* sep.join(parts)
RECURSIVE Join(_, _)
Join(sep, parts) ==
    IF parts = <<>> THEN <<>>
    ELSE IF Len(parts) = 1 THEN parts[1]
    ELSE parts[1] \o sep \o Join(sep, Tail(parts))

\* the pieces of s between its blank lines
RECURSIVE SplitAtSep(_, _)
SplitAtSep(s, piece) ==
    IF s = <<>> THEN <<piece>>
    ELSE IF Head(s) = SEP THEN <<piece>> \o SplitAtSep(Tail(s), <<>>)
    ELSE SplitAtSep(Tail(s), Append(piece, Head(s)))

\* sequences without their empty members
RECURSIVE NonEmpty(_)
NonEmpty(ss) ==
    IF ss = <<>> THEN <<>>
    ELSE IF Head(ss) = <<>> THEN NonEmpty(Tail(ss))
    ELSE <<Head(ss)>> \o NonEmpty(Tail(ss))

\* rag.py:106-109 _chunk_text_sync: RecursiveCharacterTextSplitter cuts at
\* blank lines first, strips each chunk and drops the empty ones.  The texts
\* of the model are short, every paragraph fits one chunk.
chunk_text_sync(text) ==
    NonEmpty([i \in 1..Len(SplitAtSep(text, <<>>)) |->
                 Strip(SplitAtSep(text, <<>>)[i])])

----------------------------------------------------------------------------
(* The vector store (pinecone_client) *)

\* pinecone_client.list_indexes().names(): the names of the live indexes in
\* an order the service chooses.  The code reads the list's length, its
\* membership and its first element only, so a listing is any live name
\* first followed by the others.
Listings(S) ==
    IF S = {} THEN {<<>>}
    ELSE {<<f>> \o SortedSeq(S \ {f}) : f \in S}

\* rag.py:85  if index_name not in names
NeedsCreateAlways(index_name, names) == TRUE
NeedsCreate(index_name, names) == index_name \notin Range(names)

\* rag.py:87  if len(names) >= 5
AtLimitEarly(names) == Len(names) >= IndexLimit - 1
AtLimit(names) == Len(names) >= IndexLimit

\* rag.py:88  to_delete = names[0]
ToDeleteLast(names) == names[Len(names)]
ToDelete(names) == names[1]

\* the store without index n
DropIndex(s, n) == [m \in (DOMAIN s) \ {n} |-> s[m]]

\* the store with a new, empty index n
AddIndex(s, n) == [m \in (DOMAIN s) \cup {n} |-> IF m = n THEN <<>> ELSE s[m]]

----------------------------------------------------------------------------
(* Request frames *)

Tasks == DOMAIN req

NoFrame ==
    [op |-> "none", pc |-> "idle", status |-> 0, detail |-> "", calls |-> {},
     authorization |-> [scheme |-> "none", key |-> 0],
     urls |-> <<>>, i |-> 0, parts |-> <<>>, combined_text |-> <<>>,
     index_name |-> None, names |-> <<>>, to_delete |-> None,
     delete_error |-> FALSE, second |-> FALSE, store0 |-> <<>>,
     shuffled_keys |-> <<>>, k |-> 0, tried |-> <<>>, answered |-> <<>>,
     ret |-> <<>>,
     optimized_text |-> <<>>, texts |-> <<>>, pending |-> {},
     results |-> <<>>, order |-> <<>>, well_formed |-> TRUE,
     batch_failed |-> FALSE, embeddings |-> <<>>, summary |-> <<>>,
     question |-> <<>>, context |-> <<>>, search_error |-> FALSE,
     answer |-> <<>>,
     caller |-> "none", raised |-> FALSE, reply |-> <<>>, intent |-> <<>>,
     response_type |-> "", message |-> <<>>, log |-> <<>>,
     email |-> [s |-> 0, up |-> FALSE, pad |-> FALSE],
     username |-> [s |-> 0, up |-> FALSE, pad |-> FALSE],
     identifier |-> [s |-> 0, up |-> FALSE, pad |-> FALSE],
     otp |-> None, password |-> None, hashed_password |-> [hash |-> None],
     token |-> [email |-> [s |-> 0, up |-> FALSE, pad |-> FALSE]],
     serial |-> 0]

(* Of a frame, these fields are not locals of the code but a record of what  *)
(* has happened to the request: calls (the kinds of outward calls made),     *)
(* store0 (the store when the request or call began), delete_error (its      *)
(* delete_index raised), tried and answered (the keys asked in the current   *)
(* LLM function and whether each gave a content), order (the batches in      *)
(* the order their calls completed), well_formed (every batch so far came    *)
(* back with one vector per text), batch_failed (a batch call failed),       *)
(* log (the extraction attempts of fetch_and_combine so far, with what the  *)
(* fetch gave),                                                              *)
(* search_error (the query raised), raised and reply (what the classifier   *)
(* call of /excel or /visuals gave).                                         *)

Set(p, f) == req' = [req EXCEPT ![p] = f]

\* the task handles no request: a handler whose ask was called by
\* create_excel or create_visuals (caller) has yet to return to it
Free(f) == f.pc \in {"idle", "done"} /\ f.caller = "none"

Call(f, c) == f.calls \cup {c}

\* the request ends with an error response
Fail(f, status, detail) ==
    [f EXCEPT !.pc = "done", !.status = status, !.detail = detail]

\* where create_index_if_not_exists_async returns to: its caller, or line
\* 254 of analyze
AfterEnsure(f) ==
    IF f.op = "ensure" THEN [f EXCEPT !.pc = "done", !.status = 200]
    ELSE [f EXCEPT !.pc = "optimize_text_for_rag", !.names = <<>>,
                   !.to_delete = None]

----------------------------------------------------------------------------
(* create_index_if_not_exists_async, rag.py:82-104.  _sync runs in a worker *)
(* thread (asyncio.to_thread), so its three calls to the store interleave   *)
(* with those of other requests.                                            *)

\* rag.py:84-88, 102-103
list_indexes(p) ==
    /\ req[p].pc = "list_indexes"
    /\ \E names \in Listings(DOMAIN store) :
         LET f == [req[p] EXCEPT !.names = names,
                                 !.calls = Call(req[p], "list_indexes")]
         IN  IF NeedsCreate(f.index_name, names)
             THEN IF AtLimit(names)
                  THEN Set(p, [f EXCEPT !.pc = "delete_index",
                                        !.to_delete = ToDelete(names)])
                  ELSE Set(p, [f EXCEPT !.pc = "create_index"])
             ELSE Set(p, AfterEnsure(f))
    /\ UNCHANGED <<store, API_KEY, GROQ_API_KEYS, batch_size, analyses, delete_failed, returned, users>>

\* rag.py:92-93  except Exception: print
OnDeleteErrorRaise(f) ==
    Fail([f EXCEPT !.delete_error = TRUE], 500, "delete_index raised")
OnDeleteError(f) == [f EXCEPT !.delete_error = TRUE]

\* rag.py:90-93: the deletion may raise (the index is gone already, or the
\* service fails); the error is printed and creation goes on.
delete_index(p, ok) ==
    /\ req[p].pc = "delete_index"
    /\   LET f == [req[p] EXCEPT !.pc = "create_index",
                                 !.calls = Call(req[p], "delete_index")]
         IN  IF ok /\ f.to_delete \in DOMAIN store
             THEN /\ store' = DropIndex(store, f.to_delete)
                  /\ Set(p, f)
                  /\ UNCHANGED delete_failed
             ELSE /\ Set(p, OnDeleteError(f))
                  /\ delete_failed' = TRUE
                  /\ UNCHANGED store
    /\ UNCHANGED <<API_KEY, GROQ_API_KEYS, batch_size, analyses, returned, users>>

\* rag.py:95-101: the store refuses a name it already holds; that error is
\* not caught and ends the request.
create_index(p) ==
    /\ req[p].pc = "create_index"
    /\ LET f == [req[p] EXCEPT !.calls = Call(req[p], "create_index")]
       IN  IF f.index_name \in DOMAIN store
           THEN /\ Set(p, Fail(f, 500, "create_index raised"))
                /\ UNCHANGED store
           ELSE /\ store' = AddIndex(store, f.index_name)
                /\ Set(p, AfterEnsure(f))
    /\ UNCHANGED <<API_KEY, GROQ_API_KEYS, batch_size, analyses, delete_failed, returned, users>>

\* a caller invokes create_index_if_not_exists_async(index_name) directly
call_ensure(p) ==
    /\ Free(req[p])
    /\ \E n \in Names :
         Set(p, [NoFrame EXCEPT !.op = "ensure", !.pc = "list_indexes",
                                !.index_name = n, !.store0 = store])
    /\ UNCHANGED <<store, API_KEY, GROQ_API_KEYS, batch_size, analyses, delete_failed, returned, users>>

\* the caller invokes it a second time with the same name
call_ensure_again(p) ==
    /\ req[p].pc = "done"
    /\ req[p].op = "ensure"
    /\ Set(p, [NoFrame EXCEPT !.op = "ensure", !.pc = "list_indexes",
                              !.index_name = req[p].index_name,
                              !.second = TRUE, !.store0 = store])
    /\ UNCHANGED <<store, API_KEY, GROQ_API_KEYS, batch_size, analyses, delete_failed, returned, users>>

----------------------------------------------------------------------------
(* The scraper, scraper.py:11-70 *)

\* scraper.py:23  len(text.strip()) > 200
MinLength == 200

\* what a fetch of a page can give: an exception, or an html whose
\* trafilatura extract and whose tag-stripped text have these stripped
\* lengths (0: None or empty)
Lens == {0, MinLength - 1, MinLength, MinLength + 1}
Fetches ==
    {[err |-> TRUE, traf |-> 0, raw |-> 0]}
        \cup {[err |-> FALSE, traf |-> a, raw |-> b] : a, b \in Lens}

\* a page that cannot be fetched, a page with a long extract, a page
\* whose extract is short and whose tag-stripped text is long
Unreachable == [err |-> TRUE, traf |-> 0, raw |-> 0]
GoodPage == [err |-> FALSE, traf |-> MinLength + 1, raw |-> MinLength + 1]
ThinPage == [err |-> FALSE, traf |-> MinLength, raw |-> MinLength + 1]

\* scraper.py:23, 28, 44, 48  text and len(text.strip()) > 200
LongEnoughOrEqual(n) == n >= MinLength
LongEnough(n) == n > MinLength

\* scraper.py:11-33: the text, or <<>> for None
extract_static_result(url, fetch) ==
    IF fetch.err THEN <<>>
    ELSE IF LongEnough(fetch.traf) THEN <<Tok("text", url)>>
    ELSE IF LongEnough(fetch.raw) THEN <<Tok("raw", url)>>
    ELSE <<>>

\* scraper.py:35-53
extract_js_result(url, fetch) ==
    IF fetch.err THEN <<>>
    ELSE IF LongEnough(fetch.traf) THEN <<Tok("text", url)>>
    ELSE IF LongEnough(fetch.raw) THEN <<Tok("raw", url)>>
    ELSE <<>>

\* scraper.py:64-68
PartEmptyOnFailure(url, text) ==
    IF text = <<>> THEN <<>>
    ELSE <<Tok("source", url), NL>> \o text \o <<NL>>
Part(url, text) ==
    IF text = <<>> THEN <<Tok("could_not_extract", url)>>
    ELSE <<Tok("source", url), NL>> \o text \o <<NL>>

\* scraper.py:69
Combine(parts) == Strip(Join(<<SEP>>, parts))

\* rag.py:250  uuid4().hex[:8]: a name no index and no request holds.  The
\* names are interchangeable, the smallest unused one stands for it.
UnusedNames == Names \ (DOMAIN store \cup {req[q].index_name : q \in Tasks})
FreshNames == IF UnusedNames = {} THEN {} ELSE {Min(UnusedNames)}

\* scraper.py:64-70 and rag.py:246-251: the part of the current URL is
\* appended; after the last URL the text is combined, checked, and the index
\* name is drawn.
\* rag.py:246  not combined_text or len(combined_text.strip()) == 0
NothingExtracted(combined_text) ==
    combined_text = <<>> \/ Len(Strip(combined_text)) = 0

\* scraper.py:69-70 and rag.py:245-251: fetch_and_combine returns the
\* combined text; analyze checks it, draws the index name and calls
\* create_index_if_not_exists_async
AfterFetch(p, f) ==
    LET combined == Combine(f.parts)
    IN  IF NothingExtracted(combined)
        THEN Set(p, Fail(f, 500,
                "Failed to extract content from provided URLs."))
        ELSE \E n \in FreshNames :
                Set(p, [f EXCEPT !.combined_text = combined,
                                 !.index_name = n,
                                 !.pc = "list_indexes"])

\* scraper.py:58, 64-68: the part of the current URL is appended and the
\* loop goes on with the next URL
AppendPart(p, f, text) ==
    LET g == [f EXCEPT !.parts = Append(@, Part(f.urls[f.i], text))]
    IN  IF f.i < Len(f.urls)
        THEN Set(p, [g EXCEPT !.i = @ + 1, !.pc = "extract_static"])
        ELSE Set(p, [g EXCEPT !.pc = "fetch_return"])

\* an attempt of a path on the current URL
Attempt(f, path, fetch) ==
    [f EXCEPT !.calls = Call(f, path),
              !.log = Append(@, [path |-> path, url |-> f.urls[f.i],
                                 fetch |-> fetch])]

\* scraper.py:61  if not text
NeedsJsAlways(text) == TRUE
NeedsJs(text) == text = <<>>

\* scraper.py:60-61
extract_static(p, fetch) ==
    /\ req[p].pc = "extract_static"
    /\   LET f == Attempt(req[p], "extract_static", fetch)
             text == extract_static_result(f.urls[f.i], fetch)
         IN  IF NeedsJs(text)
             THEN Set(p, [f EXCEPT !.pc = "extract_js"])
             ELSE AppendPart(p, f, text)
    /\ UNCHANGED <<store, API_KEY, GROQ_API_KEYS, batch_size, analyses, delete_failed, returned, users>>

\* scraper.py:63
extract_js(p, fetch) ==
    /\ req[p].pc = "extract_js"
    /\   LET f == Attempt(req[p], "extract_js", fetch)
         IN  AppendPart(p, f, extract_js_result(f.urls[f.i], fetch))
    /\ UNCHANGED <<store, API_KEY, GROQ_API_KEYS, batch_size, analyses, delete_failed, returned, users>>

\* scraper.py:69-70 and rag.py:245-251: fetch_and_combine returns, its
\* locals are gone
fetch_return(p) ==
    /\ req[p].pc = "fetch_return"
    /\ AfterFetch(p, [req[p] EXCEPT !.log = <<>>])
    /\ UNCHANGED <<store, API_KEY, GROQ_API_KEYS, batch_size, analyses, delete_failed, returned, users>>

----------------------------------------------------------------------------
(* Requests *)

NoHeader == [scheme |-> "none", key |-> 0]
Bearer(key) == [scheme |-> "Bearer", key |-> key]
Headers == {NoHeader, Bearer(1), Bearer(2)}

\* the URL lists of the requests: the URLs are told apart by their place
UrlLists == {[j \in 1..n |-> j] : n \in 0..MaxUrls}

\* rag.py:237, 275  API_KEY and authorization != f"Bearer {API_KEY}"
RejectedIfPresent(authorization) ==
    API_KEY # None /\ authorization.scheme = "Bearer"
                   /\ authorization # Bearer(API_KEY)
Rejected(authorization) ==
    API_KEY # None /\ authorization # Bearer(API_KEY)

\* rag.py:239  if not request.urls
NoUrlsNever(urls) == FALSE
NoUrls(urls) == Len(urls) = 0

\* rag.py:236-245 and scraper.py:56-60: a request arrives; the handler runs
\* to its first await (a loop over no URL ends at once)
analyze(p, authorization, urls) ==
    /\ Free(req[p])
    /\ analyses' = analyses + 1
    /\   LET f == [NoFrame EXCEPT !.op = "analyze",
                                  !.authorization = authorization,
                                  !.urls = urls, !.store0 = store]
         IN  IF Rejected(authorization)
             THEN Set(p, Fail(f, 401, "Invalid API Key."))
             ELSE IF NoUrls(urls)
             THEN Set(p, Fail(f, 400, "No URLs provided."))
             ELSE IF urls = <<>>
             THEN AfterFetch(p, f)
             ELSE Set(p, [f EXCEPT !.pc = "extract_static", !.i = 1])
    /\ UNCHANGED <<store, API_KEY, GROQ_API_KEYS, batch_size, delete_failed, returned, users>>

----------------------------------------------------------------------------
(* The embedding client, rag.py:41-68 *)

\* the service's vector for a text
Embedding(text) == [emb |-> text]

\* rag.py:57  range(0, len(texts), self.batch_size)
NumBatches(texts, bs) == (Len(texts) + bs - 1) \div bs

\* rag.py:58  texts[i:i+self.batch_size] of the b-th task
Batch(texts, bs, b) ==
    SubSeq(texts, (b - 1) * bs + 1, Min({b * bs, Len(texts)}))

\* rag.py:60  asyncio.gather: the results in the order of the tasks, whatever
\* the order in which they completed
gather_as_completed(results, order) ==
    [j \in 1..Len(order) |-> results[order[j]]]
gather(results, order) == results

\* rag.py:61-64  embeddings.extend(r) for r in results
RECURSIVE Flatten(_)
Flatten(results) ==
    IF results = <<>> THEN <<>>
    ELSE Head(results) \o Flatten(Tail(results))

\* what a batch call can give: one vector per text, fewer vectors than
\* texts, a non-2xx status, a body without "embeddings"
EmbedOutcomes == {"ok", "short", "http_error", "no_field"}

\* rag.py:49-52  raise_for_status, "embeddings" not in data
BatchRaisesNever(outcome) == FALSE
BatchRaises(outcome) == outcome \in {"http_error", "no_field"}

\* where aembed_documents returns to: its caller, line 117 of
\* process_text_and_upsert, or aembed_query (embs[0]) and line 284 of ask
AfterEmbed(f, embeddings) ==
    LET g == [f EXCEPT !.embeddings = embeddings, !.pending = {}]
        h == [g EXCEPT !.order = <<>>, !.results = <<>>]
    IN  CASE f.op = "analyze" -> [h EXCEPT !.pc = "upsert"]
          [] f.op = "ask" ->
                IF embeddings = <<>>
                THEN Fail(h, 500, "aembed_query raised")
                ELSE [h EXCEPT !.pc = "search_index_sync"]
          [] OTHER -> [g EXCEPT !.pc = "done", !.status = 200]

\* rag.py:55-60: one task per batch, all dispatched at once; gather of no
\* task returns at once
aembed_documents(f, texts) ==
    LET nb == NumBatches(texts, batch_size)
        g == [f EXCEPT !.texts = texts, !.well_formed = TRUE,
                       !.order = <<>>,
                       !.results = [b \in 1..nb |-> <<>>]]
    IN  IF nb = 0 THEN AfterEmbed(g, <<>>)
        ELSE [g EXCEPT !.pending = 1..nb, !.pc = "call_embedding_api"]

\* rag.py:47-53, 60-64: the call of one batch completes, in any order; an
\* exception of one call ends gather and the request; after the last call
\* the results are concatenated
call_embedding_api(p, outcome) ==
    /\ req[p].pc = "call_embedding_api"
    /\ \E b \in req[p].pending :
         LET f == [req[p] EXCEPT !.calls = Call(req[p], "embed"),
                                 !.well_formed = @ /\ outcome = "ok"]
             batch == Batch(f.texts, batch_size, b)
             n == IF outcome = "ok" THEN Len(batch) ELSE Len(batch) - 1
             g == [f EXCEPT !.results[b] = [j \in 1..n |-> Embedding(batch[j])],
                            !.pending = @ \ {b},
                            !.order = Append(@, b)]
         IN  IF BatchRaises(outcome)
             THEN Set(p, Fail([f EXCEPT !.batch_failed = TRUE], 500,
                              "aembed_documents raised"))
             ELSE IF g.pending = {}
             THEN Set(p, AfterEmbed([g EXCEPT !.batch_failed =
                                        @ \/ outcome \in {"http_error", "no_field"}],
                                    Flatten(gather(g.results, g.order))))
             ELSE Set(p, [g EXCEPT !.batch_failed =
                             @ \/ outcome \in {"http_error", "no_field"}])
    /\ UNCHANGED <<store, API_KEY, GROQ_API_KEYS, batch_size, analyses, delete_failed, returned, users>>

----------------------------------------------------------------------------
(* The LLM utilities with key failover, rag.py:136-217 *)

\* what ainvoke can give: an exception, an empty content, a content of
\* whitespace only, a content with or without whitespace around it
LlmOutcomes == {"raise", "empty", "blank", "padded", "clean"}

Content(outcome) ==
    CASE outcome = "clean" -> <<Tok("llm", 0)>>
      [] outcome = "padded" -> <<NL, Tok("llm", 0), NL>>
      [] outcome = "blank" -> <<NL>>
      [] OTHER -> <<>>

\* rag.py:155, 180, 212  resp and getattr(resp, "content", None)
HasContentNever(outcome) == FALSE
HasContent(outcome) == outcome # "raise" /\ Content(outcome) # <<>>

\* rag.py:160, 217, 286: the fixed messages
SummaryFailed == <<Tok("summary_failed", 0)>>
AnswerFailed == <<Tok("answer_failed", 0)>>
NotAvailable == <<Tok("not_available", 0)>>

\* rag.py:150, 175, 207  random.sample(GROQ_API_KEYS, len(GROQ_API_KEYS))
Shuffles ==
    {t \in [1..Len(GROQ_API_KEYS) -> Range(GROQ_API_KEYS)] :
        Range(t) = Range(GROQ_API_KEYS)}

\* the function is entered: the keys are shuffled
Shuffled(f, t, pc) ==
    [f EXCEPT !.shuffled_keys = t, !.k = 1, !.tried = <<>>,
              !.answered = <<>>, !.pc = pc]

\* one pass of the loop has asked the LLM with key shuffled_keys[k]
Asked(f, outcome) ==
    [f EXCEPT !.tried = Append(@, f.shuffled_keys[f.k]),
              !.answered = Append(@, outcome \in {"blank", "padded", "clean"}),
              !.calls = Call(f, "llm")]

\* the function is about to return ret to its caller
Returning(f, ret, pc) == [f EXCEPT !.ret = ret, !.pc = pc]

\* the function returns: its locals are gone
Returned(f) ==
    [f EXCEPT !.shuffled_keys = <<>>, !.k = 0, !.tried = <<>>,
              !.answered = <<>>, !.ret = <<>>]

\* the loop goes on with the next key
MoreKeys(f) == f.k < Len(f.shuffled_keys)

\* rag.py:187  return text
OptimizeFallbackEmpty(text) == <<>>
OptimizeFallback(text) == text

\* rag.py:175
optimize_text_for_rag(p) ==
    /\ req[p].pc = "optimize_text_for_rag"
    /\ \E t \in Shuffles : Set(p, Shuffled(req[p], t, "optimize_llm"))
    /\ UNCHANGED <<store, API_KEY, GROQ_API_KEYS, batch_size, analyses, delete_failed, returned, users>>

\* rag.py:254-262, 111-116: optimize_text_for_rag has returned text; it is
\* chunked and the chunks are sent to the embedding service
AfterOptimize(f, text) ==
    aembed_documents([Returned(f) EXCEPT !.optimized_text = text],
                     chunk_text_sync(text))

\* rag.py:176-187
optimize_llm(p, outcome) ==
    /\ req[p].pc = "optimize_llm"
    /\   LET f == Asked(req[p], outcome)
         IN  IF HasContent(outcome)
             THEN Set(p, Returning(f, Strip(Content(outcome)), "optimize_return"))
             ELSE IF MoreKeys(f)
             THEN Set(p, [f EXCEPT !.k = @ + 1])
             ELSE Set(p, Returning(f, OptimizeFallback(f.combined_text),
                                   "optimize_return"))
    /\ UNCHANGED <<store, API_KEY, GROQ_API_KEYS, batch_size, analyses, delete_failed, returned, users>>

\* rag.py:254, 262
optimize_return(p) ==
    /\ req[p].pc = "optimize_return"
    /\ Set(p, AfterOptimize(req[p], req[p].ret))
    /\ UNCHANGED <<store, API_KEY, GROQ_API_KEYS, batch_size, analyses, delete_failed, returned, users>>

\* rag.py:150
generate_summary_with_groq(p) ==
    /\ req[p].pc = "generate_summary_with_groq"
    /\ \E t \in Shuffles : Set(p, Shuffled(req[p], t, "summary_llm"))
    /\ UNCHANGED <<store, API_KEY, GROQ_API_KEYS, batch_size, analyses, delete_failed, returned, users>>

\* rag.py:267-269
AfterSummary(f, summary) ==
    [Returned(f) EXCEPT !.summary = summary, !.pc = "done", !.status = 200]

\* rag.py:151-160
summary_llm(p, outcome) ==
    /\ req[p].pc = "summary_llm"
    /\   LET f == Asked(req[p], outcome)
         IN  IF HasContent(outcome)
             THEN Set(p, Returning(f, Strip(Content(outcome)), "summary_return"))
             ELSE IF MoreKeys(f)
             THEN Set(p, [f EXCEPT !.k = @ + 1])
             ELSE Set(p, Returning(f, SummaryFailed, "summary_return"))
    /\ UNCHANGED <<store, API_KEY, GROQ_API_KEYS, batch_size, analyses, delete_failed, returned, users>>

\* rag.py:265, 269
summary_return(p) ==
    /\ req[p].pc = "summary_return"
    /\ Set(p, AfterSummary(req[p], req[p].ret))
    /\ returned' = [n \in DOMAIN returned \cup {req[p].index_name} |->
                        IF n = req[p].index_name THEN req[p].texts
                        ELSE returned[n]]
    /\ UNCHANGED <<store, API_KEY, GROQ_API_KEYS, batch_size, analyses, delete_failed, users>>

\* rag.py:207
answer_with_context_groq(p) ==
    /\ req[p].pc = "answer_with_context_groq"
    /\ \E t \in Shuffles : Set(p, Shuffled(req[p], t, "answer_llm"))
    /\ UNCHANGED <<store, API_KEY, GROQ_API_KEYS, batch_size, analyses, delete_failed, returned, users>>

\* rag.py:290
AfterAnswer(f, answer) ==
    [Returned(f) EXCEPT !.answer = answer, !.pc = "done", !.status = 200]

\* rag.py:208-217
answer_llm(p, outcome) ==
    /\ req[p].pc = "answer_llm"
    /\   LET f == Asked(req[p], outcome)
         IN  IF HasContent(outcome)
             THEN Set(p, Returning(f, Strip(Content(outcome)), "answer_return"))
             ELSE IF MoreKeys(f)
             THEN Set(p, [f EXCEPT !.k = @ + 1])
             ELSE Set(p, Returning(f, AnswerFailed, "answer_return"))
    /\ UNCHANGED <<store, API_KEY, GROQ_API_KEYS, batch_size, analyses, delete_failed, returned, users>>

\* rag.py:289-290
answer_return(p) ==
    /\ req[p].pc = "answer_return"
    /\ Set(p, AfterAnswer(req[p], req[p].ret))
    /\ UNCHANGED <<store, API_KEY, GROQ_API_KEYS, batch_size, analyses, delete_failed, returned, users>>

----------------------------------------------------------------------------
(* process_text_and_upsert, rag.py:117-131 *)

\* values of the 8 hex digits of a record id
Uuids == 1..MaxUuids

\* rag.py:119-124  zip(chunks, vectors) stops at the shorter of the two
to_upsert_no_text(chunks, vectors, uuids) ==
    [j \in 1..Min({Len(chunks), Len(vectors)}) |->
        [id |-> [i |-> j - 1, uuid |-> uuids[j]],
         values |-> vectors[j],
         metadata |-> <<>>]]
to_upsert(chunks, vectors, uuids) ==
    [j \in 1..Min({Len(chunks), Len(vectors)}) |->
        [id |-> [i |-> j - 1, uuid |-> uuids[j]],
         values |-> vectors[j],
         metadata |-> chunks[j]]]

\* index.upsert: a record replaces the stored record of the same id
Upserted(records, new) ==
    LET ids == {new[j].id : j \in 1..Len(new)}
    IN  SelectSeq(records, LAMBDA r : r.id \notin ids) \o new

\* rag.py:126-131: the write raises when the index is gone or the service
\* fails
upsert(p, ok) ==
    /\ req[p].pc = "upsert"
    /\ \E uuids \in [1..Len(req[p].texts) -> Uuids] :
         LET f == [req[p] EXCEPT !.calls = Call(req[p], "upsert")]
         IN  IF ok /\ f.index_name \in DOMAIN store
             THEN /\ store' = [store EXCEPT ![f.index_name] =
                        Upserted(@, to_upsert(f.texts, f.embeddings, uuids))]
                  /\ Set(p, [f EXCEPT !.pc = "generate_summary_with_groq"])
             ELSE /\ Set(p, Fail(f, 500, "upsert raised"))
                  /\ UNCHANGED store
    /\ UNCHANGED <<API_KEY, GROQ_API_KEYS, batch_size, analyses, delete_failed, returned, users>>

----------------------------------------------------------------------------
(* /ask, rag.py:222-231 and 274-290 *)

Question == <<Tok("question", 0)>>

\* rag.py:228  the separator "\n\n---\n\n"
Rule == <<SEP, Tok("rule", 0), SEP>>

\* index.query(top_k): the top_k records nearest to the vector, all the
\* records when the index holds no more than top_k
QueryMatches(records, top_k) ==
    IF Len(records) <= top_k THEN {records}
    ELSE {[j \in 1..top_k |-> records[g[j]]] :
            g \in {h \in [1..top_k -> 1..Len(records)] :
                     \A a, b \in 1..top_k : a < b => h[a] < h[b]}}

\* rag.py:227-228
JoinedTexts(matches) ==
    Join(Rule, [j \in 1..Len(matches) |-> matches[j].metadata])


\* rag.py:274-281: ask runs to its first await
Asking(f) ==
    IF Rejected(f.authorization)
    THEN Fail(f, 401, "Invalid API Key.")
    ELSE IF f.index_name = None
    THEN Fail(f, 400, "index_name required")
    ELSE aembed_documents(f, <<Question>>)

\* a request of /ask arrives
ask(p, authorization, index_name) ==
    /\ Free(req[p])
    /\ Set(p, Asking([NoFrame EXCEPT !.op = "ask",
                                     !.authorization = authorization,
                                     !.index_name = index_name,
                                     !.question = Question,
                                     !.store0 = store]))
    /\ UNCHANGED <<store, API_KEY, GROQ_API_KEYS, batch_size, analyses, delete_failed, returned, users>>

\* rag.py:285  if not context.strip()
NoContextNever(context) == FALSE
NoContext(context) == Strip(context) = <<>>

\* rag.py:284-286
AfterSearch(f, context) ==
    LET g == [f EXCEPT !.context = context]
    IN  IF NoContext(context)
        THEN [g EXCEPT !.answer = NotAvailable, !.pc = "done", !.status = 200]
        ELSE [g EXCEPT !.pc = "answer_with_context_groq"]

\* rag.py:229-231  except Exception: return ""
OnSearchErrorRaise(f) == Fail(f, 500, "query raised")
OnSearchError(f) == AfterSearch(f, <<>>)

\* rag.py:222-231: the query raises when the index does not exist or the
\* service fails
search_index_sync(p, ok) ==
    /\ req[p].pc = "search_index_sync"
    /\ LET f == [req[p] EXCEPT !.calls = Call(req[p], "query")]
       IN  IF ok /\ f.index_name \in DOMAIN store
           THEN \E matches \in QueryMatches(store[f.index_name], TopK) :
                    Set(p, AfterSearch(f, JoinedTexts(matches)))
           ELSE Set(p, OnSearchError([f EXCEPT !.search_error = TRUE]))
    /\ UNCHANGED <<store, API_KEY, GROQ_API_KEYS, batch_size, analyses, delete_failed, returned, users>>

----------------------------------------------------------------------------
(* /excel and /visuals, excel_generator.py:59-202 and visuals.py:71-207.    *)
(* The words of an LLM reply are tokens [t |-> word, u |-> 1 if spelled     *)
(* with upper-case letters, else 0].                                        *)

Space == Tok("space", 0)
Word(w, upper) == Tok(w, IF upper THEN 1 ELSE 0)

\* str.lower
Lower(s) ==
    [j \in 1..Len(s) |-> IF IsSpace(s[j]) THEN s[j] ELSE Tok(s[j].t, 0)]

\* str.split(): the maximal runs without whitespace
RECURSIVE Split(_)
Split(s) ==
    IF s = <<>> THEN <<>>
    ELSE IF IsSpace(Head(s)) THEN Split(Tail(s))
    ELSE IF Len(s) > 1 /\ ~IsSpace(s[2])
    THEN LET rest == Split(Tail(s))
         IN  <<<<Head(s)>> \o Head(rest)>> \o Tail(rest)
    ELSE <<<<Head(s)>>>> \o Split(Tail(s))

\* replies of the classifier: empty, blank, one label, a label in upper case
\* with whitespace around it, a label followed by more words, a first word
\* that is no label
ClassifyReplies ==
    {<<>>, <<Space>>,
     <<Word("excel", FALSE)>>, <<Word("viz", FALSE)>>,
     <<Space, Word("excel", TRUE), NL>>, <<NL, Word("viz", TRUE)>>,
     <<Word("chat", TRUE), Space, Word("sure", FALSE)>>,
     <<Word("sure", FALSE), Space, Word("excel", FALSE), Space, Word("viz", FALSE)>>}

\* excel_generator.py:87, 92 and visuals.py:97, 102: the label of the
\* structured-artifact branch of the handler
ArtifactLabel(op) ==
    IF op = "excel" THEN <<Word("excel", FALSE)>> ELSE <<Word("viz", FALSE)>>

\* excel_generator.py:82-87 and visuals.py:92-97: the first word of the
\* reply, lower-cased; the artifact label when the call raised or the reply
\* has no word ([0] raises IndexError)
Intent(op, raised, reply) ==
    LET words == Split(Lower(Strip(reply)))
    IN  IF raised \/ words = <<>> THEN ArtifactLabel(op) ELSE words[1]

\* excel_generator.py:92 and visuals.py:102  if intent != "excel" / "viz"
ChatBranch(op, intent) == intent # ArtifactLabel(op)

\* excel_generator.py:59-81 and visuals.py:71-91: the handler runs to the
\* await of the classifier call
Routed(op, authorization, index_name) ==
    LET f == [NoFrame EXCEPT !.op = op, !.authorization = authorization,
                             !.index_name = index_name,
                             !.question = Question, !.store0 = store]
    IN  IF GROQ_API_KEYS = <<>>
        THEN Fail(f, 500, "GROQ API keys not configured.")
        ELSE [f EXCEPT !.pc = "classify"]

\* a request of /excel arrives
create_excel(p, authorization, index_name) ==
    /\ Free(req[p])
    /\ Set(p, Routed("excel", authorization, index_name))
    /\ UNCHANGED <<store, API_KEY, GROQ_API_KEYS, batch_size, analyses, delete_failed, returned, users>>

\* a request of /visuals arrives
create_visuals(p, authorization, index_name) ==
    /\ Free(req[p])
    /\ Set(p, Routed("visuals", authorization, index_name))
    /\ UNCHANGED <<store, API_KEY, GROQ_API_KEYS, batch_size, analyses, delete_failed, returned, users>>

\* excel_generator.py:81-100, 112-114 and visuals.py:91-109, 121-123: the
\* classifier call completes (with any one of the keys), the intent is
\* set, and on either branch rag.ask is called with the caller's header
classify(p, raised, reply) ==
    /\ req[p].pc = "classify"
    /\ Set(p, Asking([req[p] EXCEPT
                        !.calls = Call(req[p], "classify_llm"),
                        !.raised = raised,
                        !.reply = reply,
                        !.intent = Intent(req[p].op, raised, reply),
                        !.caller = req[p].op,
                        !.op = "ask"]))
    /\ UNCHANGED <<store, API_KEY, GROQ_API_KEYS, batch_size, analyses, delete_failed, returned, users>>

\* excel_generator.py:101-126 and visuals.py:110-132: rag.ask returns to
\* the handler or raises.  An HTTPException (401, 400) is raised again, any
\* other exception becomes a 500.
ask_returns(p) ==
    /\ req[p].op = "ask"
    /\ req[p].pc = "done"
    /\ req[p].caller # "none"
    /\   LET f == [req[p] EXCEPT !.op = req[p].caller, !.caller = "none"]
         IN  IF f.status # 200
             THEN Set(p, [f EXCEPT !.detail =
                            IF f.status # 500 THEN @
                            ELSE IF ChatBranch(f.op, f.intent) THEN "str(e)"
                            ELSE "Failed to retrieve data"])
             ELSE IF ChatBranch(f.op, f.intent)
             THEN Set(p, [f EXCEPT !.response_type = "chat",
                                   !.message = f.answer])
             ELSE IF f.op = "excel" /\ f.answer = <<>>
             THEN Set(p, Fail(f, 400, "No data found to export."))
             ELSE Set(p, [f EXCEPT !.pc = "artifact_llm", !.status = 0])
    /\ UNCHANGED <<store, API_KEY, GROQ_API_KEYS, batch_size, analyses, delete_failed, returned, users>>

\* what the second LLM call can give: an exception, a text that is no JSON,
\* a JSON without the rows or the code, the JSON asked for
ArtifactOutcomes == {"raise", "bad_json", "no_rows", "ok"}

\* excel_generator.py:151-186 and visuals.py:170-193
artifact_llm(p, outcome) ==
    /\ req[p].pc = "artifact_llm"
    /\   LET f == [req[p] EXCEPT !.calls = Call(req[p], "artifact_llm")]
         IN  IF f.op = "excel"
             THEN CASE outcome = "ok" -> Set(p, [f EXCEPT !.pc = "build"])
                    [] outcome = "bad_json" ->
                         Set(p, Fail(f, 500,
                            "Failed to structure data into table format."))
                    [] OTHER ->
                         Set(p, Fail(f, 500,
                            "Failed to generate structured data for Excel."))
             ELSE IF outcome \in {"raise", "bad_json"}
             THEN Set(p, Fail(f, 500, "Failed to generate visualization code."))
             ELSE Set(p, [f EXCEPT !.pc = "build"])
    /\ UNCHANGED <<store, API_KEY, GROQ_API_KEYS, batch_size, analyses, delete_failed, returned, users>>

\* excel_generator.py:189-202 and visuals.py:196-207: the workbook is
\* written, the generated code is run
build(p, ok) ==
    /\ req[p].pc = "build"
    /\   LET f == req[p]
         IN  IF ~ok
             THEN Set(p, Fail(f, 500,
                    IF f.op = "excel" THEN "Failed to generate Excel file."
                    ELSE "Code executed but no image was produced."))
             ELSE Set(p, [f EXCEPT !.pc = "done", !.status = 200,
                            !.response_type =
                                IF f.op = "excel" THEN "excel" ELSE "viz",
                            !.message = <<Tok("generated", 0)>>])
    /\ UNCHANGED <<store, API_KEY, GROQ_API_KEYS, batch_size, analyses, delete_failed, returned, users>>

----------------------------------------------------------------------------
(* Configuration *)

\* config.py:17, 19-21, 24
ConfigInit ==
    /\ API_KEY \in {None, 1}
    /\ GROQ_API_KEYS \in {SortedSeq(1..n) : n \in 1..MaxKeys}
    /\ batch_size \in 1..MaxBatch

\* stores the service may hold when the process starts: at most IndexLimit
\* indexes, without records
InitialStores ==
    {[n \in S |-> <<>>] : S \in {T \in SUBSET Names : Cardinality(T) <= IndexLimit}}

\* by the symmetry of the names: the stores of 0..IndexLimit indexes
InitialStoresBySize == {[n \in 1..k |-> <<>>] : k \in 0..IndexLimit}

----------------------------------------------------------------------------
(* Spec: the service handling /analyze and /ask requests one after another, *)
(* at most MaxAnalyze of them /analyze                                       *)

Init ==
    /\ store \in InitialStoresBySize
    /\ req = [p \in {1} |-> NoFrame]
    /\ ConfigInit
    /\ analyses = 0
    /\ delete_failed = FALSE
    /\ returned = <<>>
    /\ users = <<>>

Next ==
    \/ \E p \in Tasks, authorization \in Headers, urls \in UrlLists :
            analyses < MaxAnalyze /\ analyze(p, authorization, urls)
    \/ \E p \in Tasks, fetch \in {Unreachable, GoodPage, ThinPage} :
            extract_static(p, fetch)
    \/ \E p \in Tasks, fetch \in {Unreachable, GoodPage, ThinPage} :
            extract_js(p, fetch)
    \/ \E p \in Tasks : fetch_return(p)
    \/ \E p \in Tasks : list_indexes(p)
    \/ \E p \in Tasks, ok \in BOOLEAN : delete_index(p, ok)
    \/ \E p \in Tasks : create_index(p)
    \/ \E p \in Tasks : optimize_text_for_rag(p)
    \/ \E p \in Tasks, outcome \in LlmOutcomes : optimize_llm(p, outcome)
    \/ \E p \in Tasks : optimize_return(p)
    \/ \E p \in Tasks, outcome \in EmbedOutcomes : call_embedding_api(p, outcome)
    \/ \E p \in Tasks, ok \in BOOLEAN : upsert(p, ok)
    \/ \E p \in Tasks : generate_summary_with_groq(p)
    \/ \E p \in Tasks, outcome \in LlmOutcomes : summary_llm(p, outcome)
    \/ \E p \in Tasks : summary_return(p)
    \/ \E p \in Tasks, authorization \in Headers, index_name \in Names \cup {None} :
            ask(p, authorization, index_name)
    \/ \E p \in Tasks, ok \in BOOLEAN : search_index_sync(p, ok)
    \/ \E p \in Tasks : answer_with_context_groq(p)
    \/ \E p \in Tasks, outcome \in LlmOutcomes : answer_llm(p, outcome)
    \/ \E p \in Tasks : answer_return(p)

Spec == Init /\ [][Next]_vars

----------------------------------------------------------------------------
(* SpecIndex: one caller, calls of create_index_if_not_exists_async one     *)
(* after another                                                            *)

InitIndex ==
    /\ store \in InitialStores
    /\ req = [p \in {1} |-> NoFrame]
    /\ API_KEY = None
    /\ GROQ_API_KEYS = <<1>>
    /\ batch_size = 1
    /\ analyses = 0
    /\ delete_failed = FALSE
    /\ returned = <<>>
    /\ users = <<>>

NextIndex ==
    \/ \E p \in Tasks : call_ensure(p)
    \/ \E p \in Tasks : call_ensure_again(p)
    \/ \E p \in Tasks : list_indexes(p)
    \/ \E p \in Tasks, ok \in BOOLEAN : delete_index(p, ok)
    \/ \E p \in Tasks : create_index(p)

SpecIndex == InitIndex /\ [][NextIndex]_vars

----------------------------------------------------------------------------
(* SpecEmbed: a caller of embeddings.aembed_documents(texts), for every     *)
(* number of texts up to MaxTexts and every batch size up to MaxBatch       *)

\* the texts handed to aembed_documents: n texts, told apart by their place
TextLists == {[j \in 1..n |-> <<Tok("text", j)>>] : n \in 0..MaxTexts}

\* a caller invokes embeddings.aembed_documents(texts)
call_aembed_documents(p) ==
    /\ req[p].pc = "idle"
    /\ \E texts \in TextLists :
         Set(p, aembed_documents([NoFrame EXCEPT !.op = "embed"], texts))
    /\ UNCHANGED <<store, API_KEY, GROQ_API_KEYS, batch_size, analyses, delete_failed, returned, users>>

InitEmbed ==
    /\ store = <<>>
    /\ req = [p \in {1} |-> NoFrame]
    /\ API_KEY = None
    /\ GROQ_API_KEYS = <<1>>
    /\ batch_size \in 1..MaxBatch
    /\ analyses = 0
    /\ delete_failed = FALSE
    /\ returned = <<>>
    /\ users = <<>>

NextEmbed ==
    \/ \E p \in Tasks : call_aembed_documents(p)
    \/ \E p \in Tasks, outcome \in EmbedOutcomes : call_embedding_api(p, outcome)

SpecEmbed == InitEmbed /\ [][NextEmbed]_vars

----------------------------------------------------------------------------
(* SpecConc: NumTasks /analyze requests running concurrently, each in its   *)
(* own task, for one URL; the steps of the tasks interleave at their awaits. *)
(* The services are up: a page that cannot be fetched is rendered, the LLM   *)
(* and the embedding service answer, the store fails a call only for an     *)
(* index that does not exist.                                               *)

InitConc ==
    /\ store \in InitialStoresBySize
    /\ req = [p \in 1..NumTasks |-> NoFrame]
    /\ API_KEY = None
    /\ GROQ_API_KEYS = <<1>>
    /\ batch_size = MaxBatch
    /\ analyses = 0
    /\ delete_failed = FALSE
    /\ returned = <<>>
    /\ users = <<>>

NextConc ==
    \/ \E p \in Tasks : req[p].pc = "idle" /\ analyze(p, NoHeader, <<1>>)
    \/ \E p \in Tasks, fetch \in {Unreachable, GoodPage} : extract_static(p, fetch)
    \/ \E p \in Tasks : extract_js(p, GoodPage)
    \/ \E p \in Tasks : fetch_return(p)
    \/ \E p \in Tasks : list_indexes(p)
    \/ \E p \in Tasks : delete_index(p, TRUE)
    \/ \E p \in Tasks : create_index(p)
    \/ \E p \in Tasks : optimize_text_for_rag(p)
    \/ \E p \in Tasks : optimize_llm(p, "clean")
    \/ \E p \in Tasks : optimize_return(p)
    \/ \E p \in Tasks : call_embedding_api(p, "ok")
    \/ \E p \in Tasks : upsert(p, TRUE)
    \/ \E p \in Tasks : generate_summary_with_groq(p)
    \/ \E p \in Tasks : summary_llm(p, "clean")
    \/ \E p \in Tasks : summary_return(p)

SpecConc == InitConc /\ [][NextConc]_vars

----------------------------------------------------------------------------
(* SpecRoutes: the service handling /ask, /excel and /visuals requests and  *)
(* direct calls of create_index_if_not_exists_async one after another, on a *)
(* store whose index 1, when there is one, may hold a record                *)

ARecord ==
    to_upsert(<<<<Tok("text", 1)>>>>, <<Embedding(<<Tok("text", 1)>>)>>, <<1>>)

InitRoutes ==
    /\ store \in InitialStoresBySize
                    \cup {[n \in 1..k |-> IF n = 1 THEN ARecord ELSE <<>>] :
                            k \in 1..IndexLimit}
    /\ req = [p \in {1} |-> NoFrame]
    /\ API_KEY \in {None, 1}
    /\ GROQ_API_KEYS \in {SortedSeq(1..n) : n \in 1..MaxKeys}
    /\ batch_size = 1
    /\ analyses = 0
    /\ delete_failed = FALSE
    /\ returned = <<>>
    /\ users = <<>>

\* the index names of the requests: none, the name of the index that may
\* hold a record, a name the store may not hold
RouteIndexNames == {None, 1, MaxNames}

NextRoutes ==
    \/ \E p \in Tasks, authorization \in Headers, index_name \in RouteIndexNames :
            create_excel(p, authorization, index_name)
    \/ \E p \in Tasks, authorization \in Headers, index_name \in RouteIndexNames :
            create_visuals(p, authorization, index_name)
    \/ \E p \in Tasks, reply \in ClassifyReplies : classify(p, FALSE, reply)
    \/ \E p \in Tasks : classify(p, TRUE, <<>>)
    \/ \E p \in Tasks : ask_returns(p)
    \/ \E p \in Tasks, outcome \in ArtifactOutcomes : artifact_llm(p, outcome)
    \/ \E p \in Tasks, ok \in BOOLEAN : build(p, ok)
    \/ \E p \in Tasks, authorization \in Headers, index_name \in RouteIndexNames :
            ask(p, authorization, index_name)
    \/ \E p \in Tasks, outcome \in EmbedOutcomes : call_embedding_api(p, outcome)
    \/ \E p \in Tasks, ok \in BOOLEAN : search_index_sync(p, ok)
    \/ \E p \in Tasks : answer_with_context_groq(p)
    \/ \E p \in Tasks, outcome \in LlmOutcomes : answer_llm(p, outcome)
    \/ \E p \in Tasks : answer_return(p)
    \/ \E p \in Tasks : call_ensure(p)
    \/ \E p \in Tasks : list_indexes(p)
    \/ \E p \in Tasks, ok \in BOOLEAN : delete_index(p, ok)
    \/ \E p \in Tasks : create_index(p)

SpecRoutes == InitRoutes /\ [][NextRoutes]_vars

----------------------------------------------------------------------------
(* SpecRetrieval: /analyze and /ask requests one after another while the    *)
(* services are up: a page that cannot be fetched is rendered, the          *)
(* embedding service and the store answer, the LLM answers a question; the  *)
(* optimizer and the summarizer may still fail on a key.                    *)

InitRetrieval ==
    /\ store \in InitialStoresBySize
    /\ req = [p \in {1} |-> NoFrame]
    /\ ConfigInit
    /\ analyses = 0
    /\ delete_failed = FALSE
    /\ returned = <<>>
    /\ users = <<>>

NextRetrieval ==
    \/ \E p \in Tasks, authorization \in Headers, urls \in UrlLists :
            analyses < MaxAnalyze /\ analyze(p, authorization, urls)
    \/ \E p \in Tasks, fetch \in {Unreachable, GoodPage} : extract_static(p, fetch)
    \/ \E p \in Tasks : extract_js(p, GoodPage)
    \/ \E p \in Tasks : fetch_return(p)
    \/ \E p \in Tasks : list_indexes(p)
    \/ \E p \in Tasks : delete_index(p, TRUE)
    \/ \E p \in Tasks : create_index(p)
    \/ \E p \in Tasks : optimize_text_for_rag(p)
    \/ \E p \in Tasks, outcome \in {"raise", "padded", "clean"} :
            optimize_llm(p, outcome)
    \/ \E p \in Tasks : optimize_return(p)
    \/ \E p \in Tasks : call_embedding_api(p, "ok")
    \/ \E p \in Tasks : upsert(p, TRUE)
    \/ \E p \in Tasks : generate_summary_with_groq(p)
    \/ \E p \in Tasks, outcome \in {"raise", "clean"} : summary_llm(p, outcome)
    \/ \E p \in Tasks : summary_return(p)
    \/ \E p \in Tasks, authorization \in Headers, index_name \in Names \cup {None} :
            ask(p, authorization, index_name)
    \/ \E p \in Tasks : search_index_sync(p, TRUE)
    \/ \E p \in Tasks : answer_with_context_groq(p)
    \/ \E p \in Tasks, outcome \in {"padded", "clean"} : answer_llm(p, outcome)
    \/ \E p \in Tasks : answer_return(p)

SpecRetrieval == InitRetrieval /\ [][NextRetrieval]_vars

----------------------------------------------------------------------------
(* SpecFetch: fetch_and_combine on the URLs of one /analyze request, for    *)
(* every outcome of every fetch                                             *)

InitFetch ==
    /\ store = <<>>
    /\ req = [p \in {1} |-> NoFrame]
    /\ API_KEY = None
    /\ GROQ_API_KEYS = <<1>>
    /\ batch_size = 1
    /\ analyses = 0
    /\ delete_failed = FALSE
    /\ returned = <<>>
    /\ users = <<>>

NextFetch ==
    \/ \E p \in Tasks, urls \in UrlLists :
            analyses < MaxAnalyze /\ analyze(p, NoHeader, urls)
    \/ \E p \in Tasks, fetch \in Fetches : extract_static(p, fetch)
    \/ \E p \in Tasks, fetch \in Fetches : extract_js(p, fetch)
    \/ \E p \in Tasks : fetch_return(p)

SpecFetch == InitFetch /\ [][NextFetch]_vars

----------------------------------------------------------------------------
(* Claims about create_index_if_not_exists_async called alone *)

\* a direct call of create_index_if_not_exists_async by p has returned
EnsureReturned(p) ==
    /\ req[p].op = "ensure"
    /\ req[p].pc = "done"
    /\ req[p].status = 200

C3_SecondCallNoOp ==
    \A p \in Tasks :
        (req[p].op = "ensure" /\ req[p].second /\ req[p].pc = "done")
        => /\ req[p].status = 200
           /\ store = req[p].store0
           /\ req[p].index_name \in DOMAIN store
           /\ req[p].calls = {"list_indexes"}

C3_Witness ==
    \E p \in Tasks :
        /\ req[p].op = "ensure" /\ req[p].second /\ req[p].pc = "done"
        /\ Cardinality(DOMAIN store) = IndexLimit
        /\ store = req[p].store0

----------------------------------------------------------------------------
(* The auth endpoints, auth.py:76-188.  The users collection holds at most   *)
(* one document per normalized e-mail address; a document is                *)
(* [username, email, otp, password], an absent field being None (otp) or    *)
(* [hash |-> None] (password).  The user store, the mail key and the JWT    *)
(* secret are configured.  find_one, update_one, find_one_and_update and    *)
(* the mail call are awaits: each is one step of the request.               *)
(* Two more fields of a document are not stored by the code but a record    *)
(* of what has happened: serial (the number of OTPs register_user has       *)
(* stored in it) and used (of those, the ones a verify_otp that had read    *)
(* it went on to succeed with); serial of a frame is the OTP its find_one   *)
(* read.                                                                    *)

\* a string: its letters s, whether it is spelled in upper case and whether
\* it is padded with white space
Strings == {[s |-> b, up |-> u, pad |-> u] : b \in 1..MaxStr, u \in BOOLEAN}

\* str.strip(), str.lower()
StripStr(x) == [x EXCEPT !.pad = FALSE]
LowerStr(x) == [x EXCEPT !.up = FALSE]

\* auth.py:48-49
normalize_email(email) == LowerStr(StripStr(email))

\* auth.py:45-46  secrets.randbelow(900000) + 100000
Otps == 1..MaxOtp

\* payload.otp is a string: the digits of a number or, written -1, not a
\* number
NotANumber == -1

Passwords == 1..MaxPw

\* auth.py:129  bcrypt.hashpw(password, gensalt())
hashpw(password) == [hash |-> password]
NoPassword == [hash |-> None]

\* auth.py:180  bcrypt.checkpw(password, stored_password)
checkpw(password, stored_password) == stored_password = hashpw(password)

\* auth.py:38-43  jwt.encode({"email": email, "exp": expiry}, ...)
create_access_token(email) == [email |-> email]

\* auth.py:84-87  find_one({"email": email, "otp": {"$exists": False}})
ExistingUser(email) == email \in DOMAIN users /\ users[email].otp = None

\* auth.py:93-97  update_one({"email": email}, {"$set": ...}, upsert=True)
SetOtp(email, username, otp) ==
    [e \in DOMAIN users \cup {email} |->
        IF e # email THEN users[e]
        ELSE IF email \in DOMAIN users
             THEN [users[e] EXCEPT !.username = username, !.otp = otp,
                                   !.serial = @ + 1]
             ELSE [username |-> username, email |-> email, otp |-> otp,
                   password |-> NoPassword, serial |-> 1, used |-> {}]]

\* the OTPs issued so far for an address, stored or about to be
Issued(email) ==
    (IF email \in DOMAIN users THEN users[email].serial ELSE 0)
    + Cardinality({q \in Tasks : req[q].pc = "update_one"
                                   /\ req[q].email = email})

\* auth.py:76-91: a /register request arrives; find_one answers
register_user(p, email, username) ==
    /\ Free(req[p])
    /\ Issued(normalize_email(email)) < MaxIssued
    /\   LET f == [NoFrame EXCEPT !.op = "register_user",
                                  !.email = normalize_email(email),
                                  !.username = StripStr(username)]
         IN  IF ExistingUser(f.email)
             THEN Set(p, Fail(f, 400, "User already registered"))
             ELSE \E otp \in Otps :
                     Set(p, [f EXCEPT !.otp = otp, !.pc = "update_one"])
    /\ UNCHANGED <<store, API_KEY, GROQ_API_KEYS, batch_size, analyses, delete_failed, returned, users>>

\* auth.py:92-97
update_one(p) ==
    /\ req[p].pc = "update_one"
    /\ users' = SetOtp(req[p].email, req[p].username, req[p].otp)
    /\ Set(p, [req[p] EXCEPT !.pc = "send_otp_email"])
    /\ UNCHANGED <<store, API_KEY, GROQ_API_KEYS, batch_size, analyses, delete_failed, returned>>

\* auth.py:99-109
send_otp_email(p, ok) ==
    /\ req[p].pc = "send_otp_email"
    /\ IF ok
       THEN Set(p, [req[p] EXCEPT !.pc = "done", !.status = 200,
                                  !.detail = "OTP sent to email"])
       ELSE Set(p, Fail(req[p], 500, "Error sending OTP"))
    /\ UNCHANGED <<store, API_KEY, GROQ_API_KEYS, batch_size, analyses, delete_failed, returned, users>>

\* auth.py:126  temp_user["otp"] != submitted_otp
OtpMatches(stored, submitted) == stored = submitted

\* auth.py:112-129: a /verify-otp request arrives; find_one answers
verify_otp(p, email, otp, password) ==
    /\ Free(req[p])
    /\   LET f == [NoFrame EXCEPT !.op = "verify_otp",
                                  !.email = normalize_email(email),
                                  !.otp = otp, !.password = password]
         IN  IF f.email \notin DOMAIN users
             THEN Set(p, Fail(f, 404, "No OTP record"))
             ELSE IF users[f.email].otp = None
             THEN Set(p, Fail(f, 404, "No OTP record"))
             ELSE IF otp = NotANumber
             THEN Set(p, Fail(f, 400, "Invalid OTP"))
             ELSE IF ~OtpMatches(users[f.email].otp, otp)
             THEN Set(p, Fail(f, 400, "Invalid OTP"))
             ELSE Set(p, [f EXCEPT !.hashed_password = hashpw(password),
                                   !.serial = users[f.email].serial,
                                   !.pc = "find_one_and_update"])
    /\ UNCHANGED <<store, API_KEY, GROQ_API_KEYS, batch_size, analyses, delete_failed, returned, users>>

\* auth.py:131-148  filter {"email": email}; $set password, $unset otp
find_one_and_update(p) ==
    /\ req[p].pc = "find_one_and_update"
    /\ LET f == req[p]
       IN  IF f.email \notin DOMAIN users
           THEN /\ Set(p, Fail(f, 500, "Server error"))
                /\ UNCHANGED users
           ELSE /\ users' = [users EXCEPT ![f.email] =
                                [@ EXCEPT !.password = f.hashed_password,
                                          !.otp = None,
                                          !.used = @ \cup {f.serial}]]
                /\ Set(p, [f EXCEPT !.pc = "done", !.status = 200,
                                    !.detail = "Verified successfully",
                                    !.token = create_access_token(
                                                  users[f.email].email)])
    /\ UNCHANGED <<store, API_KEY, GROQ_API_KEYS, batch_size, analyses, delete_failed, returned>>

\* auth.py:156-168  the documents find_one may answer with: username or
\* email equal to the stripped identifier, or email equal to its normalized
\* form, and no otp field
LoginQueryAnyOtp(identifier_raw) ==
    {e \in DOMAIN users :
        \/ users[e].username = identifier_raw
        \/ users[e].email = identifier_raw
        \/ users[e].email = normalize_email(identifier_raw)}
LoginQuery(identifier_raw) ==
    {e \in DOMAIN users :
        /\ \/ users[e].username = identifier_raw
           \/ users[e].email = identifier_raw
           \/ users[e].email = normalize_email(identifier_raw)
        /\ users[e].otp = None}

\* auth.py:151-188: a /login request arrives; find_one answers with one of
\* the matching documents
login_user(p, identifier, password) ==
    /\ Free(req[p])
    /\   LET f == [NoFrame EXCEPT !.op = "login_user",
                                  !.identifier = StripStr(identifier),
                                  !.password = password]
         IN  IF LoginQuery(f.identifier) = {}
             THEN Set(p, Fail(f, 400, "Invalid credentials"))
             ELSE \E e \in LoginQuery(f.identifier) :
                    IF users[e].password = NoPassword
                    THEN Set(p, Fail(f, 400, "Invalid credentials"))
                    ELSE IF ~checkpw(password, users[e].password)
                    THEN Set(p, Fail(f, 400, "Invalid credentials"))
                    ELSE Set(p, [f EXCEPT !.pc = "done", !.status = 200,
                                          !.detail = "Login successful",
                                          !.email = e,
                                          !.token = create_access_token(
                                                        users[e].email)])
    /\ UNCHANGED <<store, API_KEY, GROQ_API_KEYS, batch_size, analyses, delete_failed, returned, users>>

----------------------------------------------------------------------------
(* SpecAuth: /register, /verify-otp and /login requests handled             *)
(* concurrently, each in its own task; the steps of the tasks interleave at *)
(* their awaits.                                                            *)

InitAuth ==
    /\ store = <<>>
    /\ req = [p \in 1..NumTasks |-> NoFrame]
    /\ API_KEY = None
    /\ GROQ_API_KEYS = <<1>>
    /\ batch_size = 1
    /\ analyses = 0
    /\ delete_failed = FALSE
    /\ returned = <<>>
    /\ users = <<>>

\* the e-mail addresses of the requests: one address in both spellings
AuthEmails == {x \in Strings : x.s = 1}

NextAuth ==
    \/ \E p \in Tasks, email \in AuthEmails,
          username \in {x \in Strings : ~x.up} :
            register_user(p, email, username)
    \/ \E p \in Tasks : update_one(p)
    \/ \E p \in Tasks, ok \in BOOLEAN : send_otp_email(p, ok)
    \/ \E p \in Tasks, email \in AuthEmails, otp \in Otps \cup {NotANumber},
          password \in Passwords : verify_otp(p, email, otp, password)
    \/ \E p \in Tasks : find_one_and_update(p)
    \/ \E p \in Tasks, identifier \in Strings, password \in Passwords :
            login_user(p, identifier, password)

SpecAuth == InitAuth /\ [][NextAuth]_vars

----------------------------------------------------------------------------
(* Claims about concurrent /analyze requests *)

\* C1: starting from a store of at most 5 indexes, and as long as no
\* deletion has failed, the store holds at most 5 indexes in every state
\* reached by concurrent /analyze requests.
C1_AtMostFiveIndexes ==
    ~delete_failed => Cardinality(DOMAIN store) <= IndexLimit

----------------------------------------------------------------------------
(* Claims about /analyze and /ask *)

EffectCalls ==
    {"extract_static", "extract_js", "list_indexes", "delete_index",
     "create_index", "llm", "embed", "upsert", "query"}

\* C4: /analyze with an empty URL list that passes the auth check answers
\* 400, has made no call to the extractor, the store, the embedding service
\* or the LLM, and leaves the store as it was.
C4_EmptyUrlsIs400 ==
    \A p \in Tasks :
        (/\ req[p].op = "analyze"
         /\ req[p].urls = <<>>
         /\ ~Rejected(req[p].authorization))
        => /\ req[p].pc = "done"
           /\ req[p].status = 400
           /\ req[p].detail = "No URLs provided."
           /\ req[p].calls \cap EffectCalls = {}
           /\ store = req[p].store0

C4_Witness ==
    \E p \in Tasks :
        /\ req[p].op = "analyze"
        /\ req[p].urls = <<>>
        /\ API_KEY # None
        /\ req[p].authorization = Bearer(API_KEY)
        /\ req[p].status = 400
        /\ DOMAIN store # {}

\* both extraction paths have failed for every URL of the request of frame
\* f, and fetch_and_combine has returned
AllExtractionsFailed(f) ==
    /\ f.op = "analyze"
    /\ f.pc # "fetch_return"
    /\ f.urls # <<>>
    /\ Len(f.parts) = Len(f.urls)
    /\ \A j \in 1..Len(f.parts) :
          f.parts[j] = <<Tok("could_not_extract", f.urls[j])>>

\* C5: when extraction has yielded nothing for every URL of a non-empty
\* list, /analyze ends with 500 and has created no index and optimized,
\* embedded and upserted nothing.
C5_AllFailedIs500 ==
    \A p \in Tasks :
        AllExtractionsFailed(req[p])
        => /\ req[p].pc = "done"
           /\ req[p].status = 500
           /\ req[p].calls \cap
                {"list_indexes", "delete_index", "create_index", "llm",
                 "embed", "upsert"} = {}

\* C6: when the search of /ask has given a joined text that is empty or
\* whitespace only, the answer is the fixed "not available" text and no LLM
\* call has been made.
C6_NoContextNoSynthesis ==
    \A p \in Tasks :
        (/\ req[p].op = "ask"
         /\ "query" \in req[p].calls
         /\ Strip(req[p].context) = <<>>)
        => /\ req[p].pc = "done"
           /\ req[p].status = 200
           /\ req[p].answer = NotAvailable
           /\ "llm" \notin req[p].calls

C6_Witness ==
    \E p \in Tasks :
        /\ req[p].op = "ask"
        /\ "query" \in req[p].calls
        /\ ~req[p].search_error
        /\ req[p].index_name \in DOMAIN store
        /\ req[p].context = <<>>
        /\ req[p].answer = NotAvailable

\* every configured key has been asked in the current LLM function of frame
\* f and none gave a content
AllKeysFailed(f) ==
    /\ Range(f.tried) = Range(GROQ_API_KEYS)
    /\ \A j \in 1..Len(f.answered) : ~f.answered[j]

\* C7: when every configured key has failed, optimize_text_for_rag returns
\* its input text, answer_with_context_groq its fixed failure message and
\* generate_summary_with_groq its fixed fallback message, and the request
\* has not failed, whatever the number of keys.
C7_AllKeysFailedFallback ==
    \A p \in Tasks :
        AllKeysFailed(req[p])
        => /\ req[p].status = 0
           /\ req[p].pc \in {"optimize_return", "summary_return", "answer_return"}
           /\ req[p].pc = "optimize_return" => req[p].ret = req[p].combined_text
           /\ req[p].pc = "summary_return" => req[p].ret = SummaryFailed
           /\ req[p].pc = "answer_return" => req[p].ret = AnswerFailed

C7_Witness ==
    \E p \in Tasks :
        /\ AllKeysFailed(req[p])
        /\ Len(GROQ_API_KEYS) > 1
        /\ req[p].pc = "summary_return"
        /\ req[p].ret = SummaryFailed
        /\ req[p].optimized_text = req[p].combined_text

\* C9: once a batch call of the embedding service has failed, the request
\* has ended with an error, aembed_documents has given no vector, nothing
\* has been upserted or searched, and /ask has made no LLM call.
C9_BatchFailureIsTotal ==
    \A p \in Tasks :
        req[p].batch_failed
        => /\ req[p].pc = "done"
           /\ req[p].status = 500
           /\ req[p].embeddings = <<>>
           /\ "upsert" \notin req[p].calls
           /\ "query" \notin req[p].calls
           /\ req[p].op = "ask" => "llm" \notin req[p].calls
           /\ (req[p].op = "analyze" /\ req[p].index_name \in DOMAIN store)
                => store[req[p].index_name] = <<>>

C9_Witness ==
    \E p \in Tasks :
        /\ req[p].op = "analyze"
        /\ req[p].batch_failed
        /\ \E b \in DOMAIN req[p].results : req[p].results[b] # <<>>
        /\ req[p].status = 500

\* C10: when the query of /ask has raised (the index does not exist, or the
\* service failed), the context is empty and /ask answers 200 with the
\* fixed "not available" text.
C10_SearchErrorMasked ==
    \A p \in Tasks :
        (req[p].op = "ask" /\ req[p].search_error)
        => /\ req[p].context = <<>>
           /\ req[p].pc = "done"
           /\ req[p].status = 200
           /\ req[p].answer = NotAvailable

C10_Witness ==
    \E p \in Tasks :
        /\ req[p].op = "ask"
        /\ req[p].search_error
        /\ req[p].index_name \notin DOMAIN store
        /\ analyses > 0
        /\ req[p].answer = NotAvailable

----------------------------------------------------------------------------
(* Claims about aembed_documents called alone *)

\* C8: when every batch call has returned one vector per text,
\* aembed_documents returns as many vectors as texts, the i-th the embedding
\* of the i-th text, for every batch size and number of texts and every
\* order of completion of the batch calls.
C8_EmbeddingsInInputOrder ==
    \A p \in Tasks :
        (/\ req[p].op = "embed"
         /\ req[p].pc = "done"
         /\ req[p].well_formed)
        => /\ req[p].status = 200
           /\ Len(req[p].embeddings) = Len(req[p].texts)
           /\ \A j \in 1..Len(req[p].texts) :
                 req[p].embeddings[j] = Embedding(req[p].texts[j])

C8_Witness ==
    \E p \in Tasks :
        /\ req[p].op = "embed"
        /\ req[p].pc = "done"
        /\ req[p].well_formed
        /\ Len(req[p].texts) = 3
        /\ batch_size = 2
        /\ req[p].order = <<2, 1>>
        /\ Len(req[p].embeddings) = 3

----------------------------------------------------------------------------
(* Claims about the checks at the head of /analyze and /ask *)

\* C11: with an API key configured, a request of /analyze or /ask whose
\* header is not "Bearer <key>" has ended with 401, whatever its URL list or
\* index name, has made no call and has left the store as it was; with no
\* API key configured no request ends with 401.
C11_UnauthorizedFirst ==
    \A p \in Tasks :
        req[p].op \in {"analyze", "ask"}
        => /\ (API_KEY # None /\ req[p].authorization # Bearer(API_KEY))
                => /\ req[p].pc = "done"
                   /\ req[p].status = 401
                   /\ req[p].detail = "Invalid API Key."
                   /\ req[p].calls = {}
                   /\ store = req[p].store0
           /\ API_KEY = None => req[p].status # 401

C11_Witness ==
    \E p \in Tasks :
        /\ API_KEY # None
        /\ req[p].op = "ask"
        /\ req[p].authorization = NoHeader
        /\ req[p].index_name = None
        /\ req[p].status = 401

----------------------------------------------------------------------------
(* Claims about /excel and /visuals *)

\* the handler, create_excel or create_visuals, that frame f belongs to
RouteOf(f) == IF f.caller # "none" THEN f.caller ELSE f.op

\* C12: after the classifier call of /excel or /visuals, the label is the
\* lower-cased first word of the reply when there is one, and when the call
\* raised, the reply has no word, or its first word is neither the artifact
\* label nor "chat", the request does not take the chat branch.
C12_ClassifierFailsToArtifact ==
    \A p \in Tasks :
        "classify_llm" \in req[p].calls
        => LET f == req[p]
               words == Split(Lower(Strip(f.reply)))
           IN  /\ (~f.raised /\ words # <<>>) => f.intent = words[1]
               /\ (\/ f.raised
                   \/ words = <<>>
                   \/ words[1] \notin {ArtifactLabel(RouteOf(f)),
                                       <<Word("chat", FALSE)>>})
                    => /\ f.intent = ArtifactLabel(RouteOf(f))
                       /\ f.response_type # "chat"

\* no index of the store before the step is missing after it
NoIndexRemoved == DOMAIN store \subseteq DOMAIN store'

\* the step is the delete_index of a call of
\* create_index_if_not_exists_async whose name the store does not hold,
\* on a store of at least IndexLimit indexes, and removes the index to_delete
EvictionStep ==
    \E p \in Tasks :
        /\ req[p].pc = "delete_index"
        /\ "delete_index" \in req'[p].calls
        /\ req[p].index_name \notin DOMAIN store
        /\ Cardinality(DOMAIN store) >= IndexLimit
        /\ DOMAIN store \ DOMAIN store' = {req[p].to_delete}

\* the request of p has removed no index: /ask, /excel and /visuals, and a
\* call of create_index_if_not_exists_async for a name the store held or on
\* a store below the limit
RemovesNoIndex(p) ==
    (\/ RouteOf(req[p]) \in {"ask", "excel", "visuals"}
     \/ /\ req[p].op = "ensure"
        /\ \/ req[p].index_name \in DOMAIN req[p].store0
           \/ Cardinality(DOMAIN req[p].store0) < IndexLimit)
    => /\ DOMAIN req[p].store0 \subseteq DOMAIN store
       /\ "delete_index" \notin req[p].calls

\* C13: a step that removes an index from the store is the delete_index of
\* a call of create_index_if_not_exists_async with a name not in the store,
\* made while the store holds at least 5 indexes; /ask, /excel, /visuals and
\* a call for a name in the store or on a store below 5 remove no index.
C13_DeletedOnlyByEviction ==
    /\ [](\A p \in Tasks : RemovesNoIndex(p))
    /\ [][NoIndexRemoved \/ EvictionStep]_vars

C13_Witness ==
    \E p \in Tasks :
        /\ EnsureReturned(p)
        /\ Cardinality(DOMAIN req[p].store0) >= IndexLimit
        /\ "delete_index" \in req[p].calls
        /\ req[p].to_delete \in DOMAIN req[p].store0
        /\ req[p].to_delete \notin DOMAIN store

----------------------------------------------------------------------------
(* Claims about the key failover of the three LLM functions *)

LlmPcs ==
    {"optimize_llm", "optimize_return", "summary_llm", "summary_return",
     "answer_llm", "answer_return"}

\* C14: inside optimize_text_for_rag, generate_summary_with_groq and
\* answer_with_context_groq the keys asked so far are the first ones of a
\* permutation of the configured keys, each asked once; every key before
\* the last one asked gave no content; and when the last one asked gave a
\* content, the function is returning and asks no other key.
C14_KeyFailover ==
    \A p \in Tasks :
        LET f == req[p]
            n == Len(f.tried)
        IN  /\ f.pc \in LlmPcs
                => /\ Len(f.shuffled_keys) = Len(GROQ_API_KEYS)
                   /\ Range(f.shuffled_keys) = Range(GROQ_API_KEYS)
            /\ n <= Len(GROQ_API_KEYS)
            /\ Len(f.answered) = n
            /\ f.tried = SubSeq(f.shuffled_keys, 1, n)
            /\ \A a, b \in 1..n : a # b => f.tried[a] # f.tried[b]
            /\ \A a \in 1..n : f.answered[a] => a = n
            /\ (n > 0 /\ f.answered[n])
                => f.pc \in {"optimize_return", "summary_return", "answer_return"}
            /\ f.pc \in {"optimize_llm", "summary_llm", "answer_llm"} => f.k = n + 1

C14_Witness ==
    \E p \in Tasks :
        /\ req[p].pc = "answer_return"
        /\ req[p].tried = <<2, 1>>
        /\ req[p].answered = <<FALSE, TRUE>>
        /\ req[p].ret = <<Tok("llm", 0)>>

----------------------------------------------------------------------------
(* Claims about a failing eviction *)

\* C15: when the delete_index of a call of create_index_if_not_exists_async
\* has raised, the call goes on to create_index and returns without an
\* error, with the new index in the store next to every index listed, the
\* one that was to be evicted included.
C15_EvictionBestEffort ==
    \A p \in Tasks :
        (req[p].op = "ensure" /\ req[p].delete_error)
        => /\ req[p].pc \in {"create_index", "done"}
           /\ req[p].to_delete = req[p].names[1]
           /\ req[p].to_delete \in DOMAIN store
           /\ req[p].pc = "done"
                => /\ req[p].status = 200
                   /\ "create_index" \in req[p].calls
                   /\ req[p].index_name \in DOMAIN store
                   /\ DOMAIN store = DOMAIN req[p].store0 \cup {req[p].index_name}

C15_Witness ==
    \E p \in Tasks :
        /\ req[p].op = "ensure"
        /\ req[p].delete_error
        /\ req[p].pc = "done"
        /\ Cardinality(DOMAIN req[p].store0) = IndexLimit
        /\ Cardinality(DOMAIN store) = IndexLimit + 1

----------------------------------------------------------------------------
(* Claims about retrieval *)

\* C16: while the services are up, an /ask that passes the checks, against
\* an index name that an /analyze returned with success and that is still
\* in the store, ends with 200; its context is not empty and is the joined
\* text of records whose texts are chunks that /analyze upserted; the LLM
\* has been asked and the answer is its reply, not the fixed "not
\* available" text.
C16_AskAfterAnalyze ==
    \A p \in Tasks :
        LET f == req[p]
            n == f.index_name
        IN  (/\ f.op = "ask"
             /\ f.pc = "done"
             /\ ~(API_KEY # None /\ f.authorization # Bearer(API_KEY))
             /\ n \in DOMAIN returned
             /\ n \in DOMAIN store)
            => /\ f.status = 200
               /\ Strip(f.context) # <<>>
               /\ \E matches \in QueryMatches(store[n], TopK) :
                     /\ f.context = JoinedTexts(matches)
                     /\ \A j \in 1..Len(matches) :
                           matches[j].metadata \in Range(returned[n])
               /\ "llm" \in f.calls
               /\ f.answer = <<Tok("llm", 0)>>
               /\ f.answer # NotAvailable

C16_Witness ==
    \E p \in Tasks :
        /\ req[p].op = "ask"
        /\ req[p].pc = "done"
        /\ req[p].index_name \in DOMAIN returned
        /\ Len(returned[req[p].index_name]) > 1
        /\ \E j \in 1..Len(req[p].context) : req[p].context[j] = Tok("rule", 0)
        /\ req[p].answer = <<Tok("llm", 0)>>

----------------------------------------------------------------------------
(* Claims about fetch_and_combine *)

\* what the attempt e of the log gave: a text, or <<>> for None
ResultOf(e) ==
    IF e.path = "extract_static" THEN extract_static_result(e.url, e.fetch)
    ELSE extract_js_result(e.url, e.fetch)

\* the attempts made on the j-th URL of frame f (the URLs of a request are
\* distinct)
AttemptsOf(f, j) == SelectSeq(f.log, LAMBDA e : e.url = f.urls[j])

InFetch(f) ==
    f.op = "analyze" /\ f.pc \in {"extract_static", "extract_js", "fetch_return"}

\* C17: inside fetch_and_combine nothing has been raised; there is one part
\* for every URL done with, in the order of the URLs; the part of a URL
\* whose attempts all gave nothing is the placeholder naming the URL, the
\* part of any other URL carries the text its last attempt gave; when
\* fetch_and_combine is about to return there is a part for every URL.
C17_OnePartPerUrl ==
    \A p \in Tasks :
        LET f == req[p]
        IN  InFetch(f)
            => /\ f.status = 0
               /\ Len(f.parts) =
                    IF f.pc = "fetch_return" THEN Len(f.urls) ELSE f.i - 1
               /\ \A j \in 1..Len(f.parts) :
                     LET a == AttemptsOf(f, j)
                     IN  /\ a # <<>>
                         /\ IF \A k \in 1..Len(a) : ResultOf(a[k]) = <<>>
                            THEN f.parts[j] =
                                    <<Tok("could_not_extract", f.urls[j])>>
                            ELSE f.parts[j] =
                                    <<Tok("source", f.urls[j]), NL>>
                                        \o ResultOf(a[Len(a)]) \o <<NL>>

C17_Witness ==
    \E p \in Tasks :
        /\ req[p].pc = "fetch_return"
        /\ Len(req[p].urls) = 2
        /\ req[p].parts[1] = <<Tok("could_not_extract", 1)>>
        /\ req[p].parts[2] = <<Tok("source", 2), NL, Tok("raw", 2), NL>>
        /\ Len(AttemptsOf(req[p], 1)) = 2

----------------------------------------------------------------------------
(* Claims about process_text_and_upsert *)

\* the upsert of the /analyze request of frame f has completed
UpsertCompleted(f) ==
    /\ f.op = "analyze"
    /\ "upsert" \in f.calls
    /\ f.pc \in {"generate_summary_with_groq", "summary_llm", "summary_return",
                 "done"}
    /\ f.pc = "done" => f.status = 200

\* C18: after a completed upsert the index of the request holds one record
\* for every chunk, in the order of the chunks, the i-th with the text and
\* the embedding of the i-th chunk, and all ids differ.
C18_OneRecordPerChunk ==
    \A p \in Tasks :
        LET f == req[p]
        IN  UpsertCompleted(f)
            => /\ f.index_name \in DOMAIN store
               /\ LET records == store[f.index_name]
                  IN  /\ Len(records) = Len(f.texts)
                      /\ \A j \in 1..Len(records) :
                            /\ records[j].metadata = f.texts[j]
                            /\ records[j].values = Embedding(f.texts[j])
                      /\ \A a, b \in 1..Len(records) :
                            a # b => records[a].id # records[b].id

\* C19: inside fetch_and_combine the attempts follow the URLs in order; on
\* each URL the first attempt is the static path and there are at most two;
\* a second attempt is the rendered path and is made exactly when the static
\* one gave nothing (None or an exception); after a static attempt that gave
\* a text there is no rendered attempt on that URL.
C19_StaticThenRendered ==
    \A p \in Tasks :
        LET f == req[p]
        IN  InFetch(f)
            => /\ \A a, b \in 1..Len(f.log) : a < b => f.log[a].url <= f.log[b].url
               /\ \A j \in 1..Len(f.urls) :
                     LET a == AttemptsOf(f, j)
                     IN  /\ Len(a) <= 2
                         /\ Len(a) >= 1 => a[1].path = "extract_static"
                         /\ Len(a) = 2
                              => /\ a[2].path = "extract_js"
                                 /\ ResultOf(a[1]) = <<>>
                         /\ (Len(a) = 1 /\ ResultOf(a[1]) = <<>>)
                              => (f.pc = "extract_js" /\ f.i = j)
                         /\ j <= Len(f.parts) => Len(a) >= 1
                         /\ j > f.i => a = <<>>

C19_Witness ==
    \E p \in Tasks :
        /\ req[p].pc = "fetch_return"
        /\ Len(req[p].urls) = 2
        /\ Len(AttemptsOf(req[p], 1)) = 1
        /\ Len(AttemptsOf(req[p], 2)) = 2
        /\ AttemptsOf(req[p], 2)[1].fetch.err
        /\ ResultOf(AttemptsOf(req[p], 2)[2]) # <<>>

\* the part of the j-th URL of frame f carries the content-extraction result
\* (trafilatura), the tag-stripped text (BeautifulSoup)
CarriesExtract(f, j) ==
    f.parts[j] = <<Tok("source", f.urls[j]), NL, Tok("text", f.urls[j]), NL>>
CarriesStripped(f, j) ==
    f.parts[j] = <<Tok("source", f.urls[j]), NL, Tok("raw", f.urls[j]), NL>>

\* the last attempt made on the j-th URL of frame f
LastAttempt(f, j) == AttemptsOf(f, j)[Len(AttemptsOf(f, j))]

\* C20 as amended: for a URL whose last attempt, static or rendered, fetched
\* the page, the part carries the content-extraction result exactly when
\* its stripped length is more than 200, and the tag-stripped text exactly
\* when that result is missing or at most 200 long and the tag-stripped text
\* is more than 200 long.
C20_AcceptedAbove200 ==
    \A p \in Tasks :
        LET f == req[p]
        IN  InFetch(f)
            => \A j \in 1..Len(f.parts) :
                  LET e == LastAttempt(f, j)
                  IN  ~e.fetch.err
                      => /\ CarriesExtract(f, j) <=> e.fetch.traf > MinLength
                         /\ CarriesStripped(f, j)
                              <=> (e.fetch.traf <= MinLength
                                     /\ e.fetch.raw > MinLength)

\* C20: for a URL whose last attempt fetched the page, the content-
\* extraction result is replaced exactly when it is missing or its stripped
\* length is below 200: a result of 200 characters or more is carried.
C20_AcceptedFrom200 ==
    \A p \in Tasks :
        LET f == req[p]
        IN  InFetch(f)
            => \A j \in 1..Len(f.parts) :
                  LET e == LastAttempt(f, j)
                  IN  ~e.fetch.err
                      => (CarriesExtract(f, j) <=> e.fetch.traf >= MinLength)

C20_Witness ==
    \E p \in Tasks :
        /\ InFetch(req[p])
        /\ Len(req[p].parts) = 2
        /\ LastAttempt(req[p], 1).path = "extract_static"
        /\ LastAttempt(req[p], 1).fetch.traf = MinLength
        /\ CarriesStripped(req[p], 1)
        /\ LastAttempt(req[p], 2).path = "extract_js"
        /\ LastAttempt(req[p], 2).fetch.traf = MinLength + 1
        /\ CarriesExtract(req[p], 2)

----------------------------------------------------------------------------
(* Claims about the outcome of /analyze on the store *)

\* store s holds the index of frame f with the records f upserted, for some
\* choice of the record ids
HoldsUpserted(s, f) ==
    /\ f.index_name \in DOMAIN s
    /\ \E uuids \in [1..Len(f.texts) -> Uuids] :
          LET recs == to_upsert(f.texts, f.embeddings, uuids)
          IN  \A j \in 1..Len(recs) : recs[j] \in Range(s[f.index_name])

\* C21: under any interleaving of concurrent /analyze requests, at the step
\* where a request returns success with index name n, the store holds index
\* n with the records that request upserted.
C21_ReturnedIndexLive ==
    [][\A p \in Tasks :
          (/\ req[p].op = "analyze"
           /\ req[p].pc = "summary_return"
           /\ req'[p].pc = "done"
           /\ req'[p].status = 200)
              => HoldsUpserted(store', req[p])]_vars

\* C22: a /analyze request that has ended with an error leaves the set of
\* indexes of the store as it was when the request arrived: none created,
\* none evicted.
C22_FailedAnalyzeKeepsIndexes ==
    \A p \in Tasks :
        (req[p].op = "analyze" /\ req[p].pc = "done" /\ req[p].status # 200)
            => DOMAIN store = DOMAIN req[p].store0

----------------------------------------------------------------------------
(* Claims about the auth endpoints *)

\* C23: in every state of the user store reached by interleaved /register,
\* /verify-otp and /login requests, an account that has a password has no
\* pending OTP.
C23_VerifiedHasNoOtp ==
    \A e \in DOMAIN users :
        users[e].password # NoPassword => users[e].otp = None

\* C24: an issued OTP is used at most once: a /verify-otp request succeeds
\* only if no request has succeeded before with the OTP it read (the same
\* OTP as register_user stored it, not merely the same digits); a request
\* that does not succeed leaves the stored passwords unchanged.
C24_OtpSingleUse ==
    [][\A p \in Tasks :
          /\ (/\ req[p].op = "verify_otp"
              /\ req[p].pc = "find_one_and_update"
              /\ req'[p].pc = "done"
              /\ req'[p].status = 200)
                => req[p].serial \notin users[req[p].email].used
          /\ (/\ req'[p] # req[p]
              /\ req'[p].op = "verify_otp"
              /\ req'[p].pc = "done"
              /\ req'[p].status # 200)
                => /\ req'[p].status \in {404, 400}
                   /\ \A e \in DOMAIN users :
                         users'[e].password = users[e].password]_vars

\* document e matches the identifier by user name or by e-mail address, has
\* no pending OTP and a stored password, which is the submitted one
MayLogIn(e, identifier, password) ==
    /\ \/ users[e].username = identifier
       \/ users[e].email = identifier
       \/ users[e].email = normalize_email(identifier)
    /\ users[e].otp = None
    /\ users[e].password # NoPassword
    /\ users[e].password = hashpw(password)

\* C25: /login issues a token only if a document matches the identifier by
\* user name or by e-mail address that has no pending OTP and a stored
\* password equal to the submitted one, and the token is for that document's
\* address; in every other case it answers 400 "Invalid credentials"; in all
\* cases the user store is left unchanged.
C25_LoginOnlyVerified ==
    [][\A p \in Tasks :
          (req'[p] # req[p] /\ req'[p].op = "login_user")
              => /\ users' = users
                 /\ IF req'[p].token # NoFrame.token
                    THEN /\ req'[p].status = 200
                         /\ \E e \in DOMAIN users :
                               /\ MayLogIn(e, req'[p].identifier,
                                           req'[p].password)
                               /\ req'[p].token
                                     = create_access_token(users[e].email)
                    ELSE /\ req'[p].status = 400
                         /\ req'[p].detail = "Invalid credentials"]_vars

\* a login has succeeded with the address in its upper-case spelling, and
\* another has been refused for an account whose OTP is pending
C25_Witness ==
    /\ req[1].op = "login_user" /\ req[1].status = 200
    /\ req[1].identifier.up
    /\ req[1].token = create_access_token(LowerStr(req[1].identifier))
    /\ req[2].op = "login_user" /\ req[2].status = 400
    /\ \E e \in DOMAIN users :
          users[e].otp # None /\ users[e].username = req[2].identifier

----------------------------------------------------------------------------
(* Claims about the auth check of /excel and /visuals *)

\* C26: with an API key configured, a request of /excel or /visuals whose
\* header is not "Bearer <key>" that has been answered has been answered 401,
\* whatever the classifier gave, and has made no call to the LLM, the
\* embedding service or the store.
C26_RoutesRejectBeforeCalls ==
    \A p \in Tasks :
        (/\ req[p].op \in {"excel", "visuals"}
         /\ req[p].pc = "done"
         /\ API_KEY # None
         /\ req[p].authorization # Bearer(API_KEY))
            => /\ req[p].status = 401
               /\ req[p].calls = {}

====
